---- MODULE Spec2Model ----
(***************************************************************************)
(* Model of src/bot/main.py: the Telegram channel post collector.          *)
(* One run of main(): validate the environment, fetch the recent messages, *)
(* turn every in-window message into a post, sort and cap the posts, and   *)
(* write them to POSTS_FILE.  Text is a sequence of one-character strings, *)
(* time is counted in hours.                                               *)
(***************************************************************************)
EXTENDS Integers, Sequences, FiniteSets, TLC

VARIABLES pc, recent_messages, cutoff_time, idx, posts, media_results,
          store, media_dir, log, outcome, text_in, text_out

vars == <<pc, recent_messages, cutoff_time, idx, posts, media_results,
          store, media_dir, log, outcome, text_in, text_out>>

(***************************************************************************)
(* Program constants                                                       *)
(***************************************************************************)
DEFAULT_IMAGE == "default-banner.png"

MaxLength == 1000

TitleLength == 50

HoursBack == 48

MaxCount == 10

(***************************************************************************)
(* Bounds of the model                                                     *)
(***************************************************************************)
Now == 130

MaxBatch == 2

MaxId == 2

Overflow == 1

PadSlack == 4

TailLen == 2

(***************************************************************************)
(* Values                                                                  *)
(***************************************************************************)
None == "None"

NoDate == -1

Str(chars) == [kind |-> "str", chars |-> chars]

NoText == [kind |-> "none", chars |-> <<>>]

BadText == [kind |-> "bad", chars |-> <<>>]

Min(a, b) == IF a < b THEN a ELSE b

Take(s, n) == SubSeq(s, 1, Min(n, Len(s)))

Drop(s, n) == SubSeq(s, n + 1, Len(s))

(***************************************************************************)
(* sanitize_text                                                           *)
(***************************************************************************)
\* str.replace(old, new) for a one-character old: left to right, every
\* occurrence.
RECURSIVE Replace(_, _, _)
Replace(s, old, new) ==
    IF s = <<>> THEN <<>>
    ELSE IF Len(s) = 1 THEN (IF s[1] = old THEN new ELSE s)
    ELSE LET h == Len(s) \div 2
         IN  Replace(SubSeq(s, 1, h), old, new) \o
             Replace(SubSeq(s, h + 1, Len(s)), old, new)

IsSpace(c) == c \in {" ", "\n"}

RECURSIVE LStrip(_)
LStrip(s) ==
    IF s # <<>> /\ IsSpace(s[1]) THEN LStrip(Tail(s)) ELSE s

RECURSIVE RStrip(_)
RStrip(s) ==
    IF s # <<>> /\ IsSpace(s[Len(s)]) THEN RStrip(SubSeq(s, 1, Len(s) - 1)) ELSE s

\* str.strip()
Strip(s) == RStrip(LStrip(s))

\* truthiness of a text value: None and "" are falsy
Truthy(t) == t.kind = "bad" \/ (t.kind = "str" /\ t.chars # <<>>)

Escape(s) == Replace(Replace(s, "<", <<"&", "l", "t", ";">>), ">", <<"&", "g", "t", ";">>)

\* sanitize_text with the cut made before the escaping
sanitize_text_cut_first(t) ==
    IF ~Truthy(t) THEN <<>>
    ELSE Strip(Escape(Take(t.chars, MaxLength)))

\* sanitize_text(text) for None or a str
sanitize_text(t) ==
    IF ~Truthy(t) THEN <<>>
    ELSE Strip(Take(Escape(t.chars), MaxLength))

\* a text value that is not a str has no .replace: sanitize_text raises
SanitizeRaises(t) == t.kind = "bad"

(***************************************************************************)
(* Messages of the channel                                                 *)
(***************************************************************************)
Msg(id, date, text, caption, media) ==
    [message_id |-> id, date |-> date, text |-> text, caption |-> caption,
     media |-> media]

Cutoff == Now - HoursBack

Ids == 1..MaxId

\* one hour before the cutoff, the cutoff itself, one hour after it, now
DateVals == {Cutoff - 1, Cutoff, Cutoff + 1, Now}

SampleText == Str(<<" ", "<", "b", ">", "\n", "x">>)

MediaKinds == {"photo", "video", "document_video", "document_other", "malformed"}

\* text-less, media-less messages of every id and date (a message whose
\* date cannot be compared included), and messages that vary the text, the
\* caption and the attachment
Messages ==
    {Msg(id, d, NoText, NoText, "none") : id \in Ids, d \in DateVals \cup {NoDate}}
    \cup {Msg(1, Now, t, NoText, "none") : t \in {SampleText, Str(<<>>), BadText}}
    \cup {Msg(1, Now, NoText, SampleText, "none")}
    \cup {Msg(1, Now, NoText, NoText, k) : k \in MediaKinds}

ShortBatches == UNION {[1..n -> Messages] : n \in 0..MaxBatch}

\* batches with more in-window messages than MaxCount
LongBatches ==
    UNION {{[i \in 1..n |-> Msg(i, d[i], NoText, NoText, "none")] :
              d \in [1..n -> {Cutoff, Now}]} :
           n \in (MaxCount + 1)..(MaxCount + Overflow)}

Batches == ShortBatches \cup LongBatches

(***************************************************************************)
(* Posts                                                                   *)
(***************************************************************************)
\* datetime.isoformat(): zero-padded fields, here day and hour
IsoFormat(t) ==
    <<(t \div 24) \div 10, (t \div 24) % 10, (t % 24) \div 10, (t % 24) % 10>>

\* the time an ISO string denotes
FromIso(ts) == (ts[1] * 10 + ts[2]) * 24 + ts[3] * 10 + ts[4]

\* str < str: lexicographic
RECURSIVE LexLess(_, _)
LexLess(a, b) ==
    IF b = <<>> THEN FALSE
    ELSE IF a = <<>> THEN TRUE
    ELSE IF a[1] # b[1] THEN a[1] < b[1]
    ELSE LexLess(Tail(a), Tail(b))

RECURSIVE FirstLine(_)
FirstLine(s) ==
    IF s = <<>> \/ s[1] = "\n" THEN <<>> ELSE <<s[1]>> \o FirstLine(Tail(s))

UntitledPost == <<"Untitled Post">>

Title(content) ==
    IF content # <<>> THEN Take(FirstLine(content), TitleLength) ELSE UntitledPost

NoRef == <<>>

DefaultRef == <<DEFAULT_IMAGE>>

\* file_path.replace('public/', '')
MediaPath(file_id, ext) == <<"media", file_id, ext>>

Post(m, content, image, video) ==
    [title |-> Title(content),
     content |-> content,
     image |-> IF image # NoRef THEN image ELSE DefaultRef,
     video |-> video,
     link |-> m.message_id,
     timestamp |-> IsoFormat(m.date)]

\* list.sort(key=timestamp, reverse=True): stable, descending
InsertDesc(s, p) ==
    LET k == Cardinality({i \in 1..Len(s) : ~LexLess(s[i].timestamp, p.timestamp)})
    IN  Take(s, k) \o <<p>> \o Drop(s, k)

RECURSIVE SortDesc(_)
SortDesc(s) ==
    IF s = <<>> THEN <<>>
    ELSE InsertDesc(SortDesc(SubSeq(s, 1, Len(s) - 1)), s[Len(s)])

\* the cap without the sort
RankUnsorted(ps) == Take(ps, MaxCount)

\* posts.sort(...); return posts[:10]
Rank(ps) == Take(SortDesc(ps), MaxCount)

(***************************************************************************)
(* The store (POSTS_FILE) and the media directory                          *)
(***************************************************************************)
Absent == [exists |-> FALSE, items |-> <<>>, complete |-> FALSE]

Document(items) == [exists |-> TRUE, items |-> items, complete |-> TRUE]

\* a file opened with "w" and not written to its end
Partial(items) == [exists |-> TRUE, items |-> items, complete |-> FALSE]

\* what an earlier run, one hour ago, left in the store
PriorStore ==
    Document(<<Post(Msg(1, Cutoff - 1, NoText, NoText, "none"), <<>>, NoRef, NoRef)>>)

\* the file a download writes: complete, or cut short
WriteFile(dir, file_id, ext, complete) ==
    {f \in dir : ~(f[1] = file_id /\ f[2] = ext)} \cup {<<file_id, ext, complete>>}

(***************************************************************************)
(* download_media                                                          *)
(***************************************************************************)
\* what one call of download_media can do: write the file and return its
\* path; get a non-200 response; raise before the file is opened (makedirs,
\* get_file, requests.get); raise while writing the file; or wait for a
\* response that never comes (requests.get is called without a timeout)
DownloadOutcomes == {"ok", "non200", "raise", "write_raise", "hang"}

\* download_media returning the path whenever the response was a 200, the
\* write finished or not
DownloadReturnUnchecked(o, file_id, ext) ==
    IF o \in {"ok", "write_raise"} THEN MediaPath(file_id, ext) ELSE NoRef

DownloadReturn(o, file_id, ext) ==
    IF o = "ok" THEN MediaPath(file_id, ext) ELSE NoRef

DownloadFiles(o, dir, file_id, ext) ==
    IF o = "ok" THEN WriteFile(dir, file_id, ext, TRUE)
    ELSE IF o = "write_raise" THEN WriteFile(dir, file_id, ext, FALSE)
    ELSE dir

DownloadLog(o) ==
    IF o = "non200" THEN {"media_status_warning"}
    ELSE IF o \in {"raise", "write_raise"} THEN {"media_download_error"}
    ELSE {}

(***************************************************************************)
(* The run                                                                 *)
(***************************************************************************)
NoOutput == [set |-> FALSE, chars |-> <<>>]

Init ==
    /\ pc = "Start"
    /\ recent_messages = <<>>
    /\ cutoff_time = 0
    /\ idx = 0
    /\ posts = <<>>
    /\ media_results = <<>>
    /\ store \in {Absent, PriorStore}
    /\ media_dir = {}
    /\ log = {}
    /\ outcome = "running"
    /\ text_in = NoText
    /\ text_out = NoOutput

\* validate_environment_variables, called outside the try of fetch_posts:
\* its ValueError reaches main, which logs it and raises it again
ValidateEnv ==
    /\ pc = "Start"
    /\ \E env_ok \in BOOLEAN :
          IF env_ok
          THEN /\ pc' = "Fetching"
               /\ UNCHANGED <<log, outcome>>
          ELSE /\ pc' = "Done"
               /\ log' = log \cup {"missing_env", "critical"}
               /\ outcome' = "raised"
    /\ UNCHANGED <<recent_messages, cutoff_time, idx, posts, media_results,
                   store, media_dir, text_in, text_out>>

\* fetch_posts returns [] to main
ReturnEmpty(event) ==
    /\ posts' = <<>>
    /\ log' = log \cup {event}
    /\ pc' = "Returned"

\* building the application, the cutoff, and bot.get_chat_messages
FetchMessages ==
    /\ pc = "Fetching"
    /\ \/ /\ ReturnEmpty("telegram_error")
          /\ UNCHANGED <<recent_messages, cutoff_time, idx>>
       \/ /\ ReturnEmpty("fetch_error")
          /\ cutoff_time' = Now - HoursBack
          /\ UNCHANGED <<recent_messages, idx>>
       \/ /\ \E batch \in Batches : recent_messages' = batch
          /\ cutoff_time' = Now - HoursBack
          /\ idx' = 1
          /\ pc' = "Normalizing"
          /\ UNCHANGED <<posts, log>>
    /\ UNCHANGED <<media_results, store, media_dir, outcome, text_in, text_out>>

\* the skip with the boundary excluded
OlderOrAtCutoff(date, cutoff) == date <= cutoff

\* message.date < cutoff_time: the message is skipped
OlderThanCutoff(date, cutoff) == date < cutoff

\* the extension download_media is called with, or None when it is not called
DownloadExt(m) ==
    IF m.media = "photo" THEN "jpg"
    ELSE IF m.media \in {"video", "document_video"} THEN "mp4"
    ELSE None

AppendPost(m, image, video, result) ==
    /\ posts' = Append(posts,
                       Post(m, sanitize_text(IF Truthy(m.text) THEN m.text ELSE m.caption),
                            image, video))
    /\ media_results' = Append(media_results, result)
    /\ idx' = idx + 1
    /\ pc' = "Normalizing"

\* the comparison with the cutoff or sanitize_text raises for this message
ProcessingRaises(m) ==
    \/ m.date = NoDate
    \/ /\ ~OlderThanCutoff(m.date, cutoff_time)
       /\ SanitizeRaises(IF Truthy(m.text) THEN m.text ELSE m.caption)

\* one iteration of the loop over recent_messages
ProcessMessage ==
    /\ pc = "Normalizing"
    /\ idx <= Len(recent_messages)
    /\ \E m \in {recent_messages[idx]} :
          \/ \* the comparison or sanitize_text raises: the outer handler
             /\ ProcessingRaises(m)
             /\ ReturnEmpty("unexpected_error")
             /\ UNCHANGED <<idx, media_results, media_dir>>
          \/ \* older than the cutoff: skipped
             /\ ~ProcessingRaises(m)
             /\ OlderThanCutoff(m.date, cutoff_time)
             /\ idx' = idx + 1
             /\ UNCHANGED <<pc, posts, media_results, media_dir, log>>
          \/ \* the attachment cannot be read: the inner handler
             /\ ~ProcessingRaises(m)
             /\ ~OlderThanCutoff(m.date, cutoff_time)
             /\ m.media = "malformed"
             /\ AppendPost(m, NoRef, NoRef, "inspect_raise")
             /\ log' = log \cup {"media_processing_error"}
             /\ UNCHANGED media_dir
          \/ \* nothing to download
             /\ ~ProcessingRaises(m)
             /\ ~OlderThanCutoff(m.date, cutoff_time)
             /\ m.media # "malformed"
             /\ DownloadExt(m) = None
             /\ AppendPost(m, NoRef, NoRef, "none")
             /\ UNCHANGED <<media_dir, log>>
          \/ \* download_media returns
             /\ ~ProcessingRaises(m)
             /\ ~OlderThanCutoff(m.date, cutoff_time)
             /\ DownloadExt(m) # None
             /\ \E o \in DownloadOutcomes \ {"hang"} :
                   /\ AppendPost(m,
                         IF DownloadExt(m) = "jpg"
                         THEN DownloadReturn(o, m.message_id, "jpg") ELSE NoRef,
                         IF DownloadExt(m) = "mp4"
                         THEN DownloadReturn(o, m.message_id, "mp4") ELSE NoRef,
                         o)
                   /\ media_dir' = DownloadFiles(o, media_dir, m.message_id, DownloadExt(m))
                   /\ log' = log \cup DownloadLog(o)
          \/ \* download_media never returns
             /\ ~ProcessingRaises(m)
             /\ ~OlderThanCutoff(m.date, cutoff_time)
             /\ DownloadExt(m) # None
             /\ "hang" \in DownloadOutcomes
             /\ pc' = "Blocked"
             /\ UNCHANGED <<idx, posts, media_results, media_dir, log>>
    /\ UNCHANGED <<recent_messages, cutoff_time, store, outcome, text_in, text_out>>

\* after the loop: sort, cap, return
RankPosts ==
    /\ pc = "Normalizing"
    /\ idx > Len(recent_messages)
    /\ posts' = Rank(posts)
    /\ pc' = "Returned"
    /\ UNCHANGED <<recent_messages, cutoff_time, idx, media_results, store,
                   media_dir, log, outcome, text_in, text_out>>

\* what save_posts can do: write the whole document; fail before the file is
\* opened (makedirs, open); or fail after open(..., "w") has emptied the
\* file, with the first k posts written
SaveOutcomes(ps) ==
    {[kind |-> "ok", k |-> Len(ps)], [kind |-> "open_fail", k |-> 0]}
    \cup {[kind |-> "write_fail", k |-> k] : k \in 0..(Len(ps) - 1)}

SaveStore(o, old, ps) ==
    IF o.kind = "ok" THEN Document(ps)
    ELSE IF o.kind = "write_fail" THEN Partial(Take(ps, o.k))
    ELSE old

\* main, posts not empty: save_posts, which logs every exception and returns
SavePosts ==
    /\ pc = "Returned"
    /\ posts # <<>>
    /\ \E o \in SaveOutcomes(posts) :
          /\ store' = SaveStore(o, store, posts)
          /\ log' = log \cup {IF o.kind = "ok" THEN "saved" ELSE "save_error"}
    /\ pc' = "Done"
    /\ outcome' = "returned"
    /\ UNCHANGED <<recent_messages, cutoff_time, idx, posts, media_results,
                   media_dir, text_in, text_out>>

\* main, posts empty: a warning, nothing is written
NoPosts ==
    /\ pc = "Returned"
    /\ posts = <<>>
    /\ log' = log \cup {"no_posts"}
    /\ pc' = "Done"
    /\ outcome' = "returned"
    /\ UNCHANGED <<recent_messages, cutoff_time, idx, posts, media_results,
                   store, media_dir, text_in, text_out>>

Next ==
    \/ ValidateEnv
    \/ FetchMessages
    \/ ProcessMessage
    \/ RankPosts
    \/ SavePosts
    \/ NoPosts

Spec == Init /\ [][Next]_vars

(***************************************************************************)
(* sanitize_text on its own                                                *)
(***************************************************************************)
SanChars == {"<", ">", "a", " "}

SeqsUpTo(S, n) == UNION {[1..k -> S] : k \in 0..n}

Fill(p) == [i \in 1..p |-> "a"]

PadLengths == {0} \cup (MaxLength - PadSlack)..(MaxLength + 1)

\* None, and strings around the maximum length: a head, a run of "a", a tail
SanInputs ==
    {NoText} \cup
    {Str(h \o Fill(p) \o t) :
        h \in SeqsUpTo(SanChars, 1), p \in PadLengths, t \in SeqsUpTo(SanChars, TailLen)}

SanInit ==
    /\ pc = "Sanitize"
    /\ recent_messages = <<>>
    /\ cutoff_time = 0
    /\ idx = 0
    /\ posts = <<>>
    /\ media_results = <<>>
    /\ store = Absent
    /\ media_dir = {}
    /\ log = {}
    /\ outcome = "running"
    /\ text_in \in SanInputs
    /\ text_out = NoOutput

ApplySanitize ==
    /\ pc = "Sanitize"
    /\ pc' = "Sanitized"
    /\ text_out' = [set |-> TRUE, chars |-> sanitize_text(text_in)]
    /\ UNCHANGED <<recent_messages, cutoff_time, idx, posts, media_results,
                   store, media_dir, log, outcome, text_in>>

SanNext == ApplySanitize

SanSpec == SanInit /\ [][SanNext]_vars

(***************************************************************************)
(* Properties                                                              *)
(***************************************************************************)
RetrievalSucceeded == log \cap {"missing_env", "telegram_error", "fetch_error"} = {}

InWindow(m) == m.date # NoDate /\ m.date >= Now - HoursBack

WindowIdx == {i \in 1..Len(recent_messages) : InWindow(recent_messages[i])}

\* C1: a persist that fails leaves the store holding what it held before.
FailedPersistKeepsStore ==
    [][("save_error" \in log' /\ "save_error" \notin log) => store' = store]_vars

\* C2: a run whose retrieval succeeded and that has no posts still persists:
\* the store afterwards is a valid empty array.
EmptyResultPersisted ==
    (pc = "Done" /\ RetrievalSucceeded /\ "unexpected_error" \notin log
       /\ posts = <<>>)
    => store = Document(<<>>)

\* C3: when processing one message fails, every other in-window message of
\* the batch is in the persisted collection.
PerItemFailureIsolated ==
    (pc = "Done" /\ RetrievalSucceeded /\ "save_error" \notin log
       /\ Len(recent_messages) <= MaxCount)
    => \A i \in WindowIdx :
          LET m == recent_messages[i]
          IN  ~SanitizeRaises(IF Truthy(m.text) THEN m.text ELSE m.caption)
              => /\ store.complete
                 /\ \E j \in 1..Len(store.items) :
                       /\ store.items[j].link = m.message_id
                       /\ FromIso(store.items[j].timestamp) = m.date

\* C4: a run whose retrieval from the Source failed ends with the failure
\* raised to the caller.
SourceFailureSurfaced ==
    (pc = "Done" /\ "fetch_error" \in log) => outcome = "raised"

\* C5: the ranked collection never holds two posts with the same message
\* identifier and different timestamps.
RankedIdsUnique ==
    pc \in {"Returned", "Done"}
    => \A j, k \in 1..Len(posts) :
          (j # k /\ posts[j].timestamp # posts[k].timestamp)
          => posts[j].link # posts[k].link

SortedDesc(items) ==
    \A j, k \in 1..Len(items) :
        j < k => FromIso(items[j].timestamp) >= FromIso(items[k].timestamp)

\* the k-th item is the k-th most recent in-window message
IsKthMostRecent(t, k) ==
    /\ Cardinality({i \in WindowIdx : recent_messages[i].date > t}) < k
    /\ k <= Cardinality({i \in WindowIdx : recent_messages[i].date >= t})

\* C6: the store is sorted by timestamp, most recent first, and holds at most
\* MaxCount posts; after a run that wrote it, it holds the MaxCount most
\* recent in-window messages, whatever order they came in.
StoreSortedAndCapped ==
    /\ SortedDesc(store.items)
    /\ Len(store.items) <= MaxCount
    /\ (pc = "Done" /\ "saved" \in log)
       => /\ Len(store.items) = Min(MaxCount, Cardinality(WindowIdx))
          /\ \A k \in 1..Len(store.items) :
                IsKthMostRecent(FromIso(store.items[k].timestamp), k)

StoreSortedAndCappedWitness ==
    /\ pc = "Done"
    /\ "saved" \in log
    /\ Cardinality(WindowIdx) > MaxCount
    /\ \E i, j \in WindowIdx :
          i < j /\ recent_messages[i].date < recent_messages[j].date
    /\ recent_messages[1].date = Now
    /\ \E k \in 1..Len(store.items) : FromIso(store.items[k].timestamp) = Now - HoursBack

Processed == SubSeq(recent_messages, 1, idx - 1)

Retained == SelectSeq(Processed, InWindow)

\* C7: in the loop, the posts are exactly the messages seen so far whose date
\* is at or after now - hours_back, each decided on its own date.
WindowFilterExact ==
    pc = "Normalizing"
    => /\ Len(posts) = Len(Retained)
       /\ \A j \in 1..Len(posts) :
             /\ posts[j].link = Retained[j].message_id
             /\ FromIso(posts[j].timestamp) = Retained[j].date

WindowFilterExactWitness ==
    /\ pc = "Normalizing"
    /\ idx = 3
    /\ recent_messages[1].date = Now - HoursBack - 1
    /\ recent_messages[2].date = Now - HoursBack
    /\ Len(posts) = 1
    /\ posts[1].link = recent_messages[2].message_id

FetchFailures == {"non200", "raise", "write_raise", "inspect_raise"}

IsDownloaded(ref) == ref # NoRef /\ ref # DefaultRef

\* C8: in the loop, a message whose media fetch failed has a post with the
\* default image and no video; a post refers to a downloaded file only when
\* its download succeeded, and the file just downloaded is complete.
MediaFailureDegrades ==
    pc = "Normalizing"
    => /\ Len(media_results) = Len(posts)
       /\ \A j \in 1..Len(posts) :
             /\ media_results[j] \in FetchFailures
                => posts[j].image = DefaultRef /\ posts[j].video = NoRef
             /\ (IsDownloaded(posts[j].image) \/ IsDownloaded(posts[j].video))
                => media_results[j] = "ok"
       /\ \A ref \in IF posts = <<>> THEN {}
                      ELSE {posts[Len(posts)].image, posts[Len(posts)].video} :
             IsDownloaded(ref) => <<ref[2], ref[3], TRUE>> \in media_dir

MediaFailureDegradesWitness ==
    /\ pc = "Normalizing"
    /\ Len(posts) = 2
    /\ media_results[1] = "write_raise"
    /\ posts[1].image = DefaultRef
    /\ media_results[2] = "ok"
    /\ IsDownloaded(posts[2].video)

\* C9: the sanitized text is at most MaxLength long and has no "<" or ">".
SanitizedBoundedAndEscaped ==
    text_out.set
    => /\ Len(text_out.chars) <= MaxLength
       /\ \A i \in 1..Len(text_out.chars) : text_out.chars[i] \notin {"<", ">"}

\* an escape sequence cut at the boundary
SanitizedBoundedAndEscapedWitness ==
    /\ text_out.set
    /\ Len(text_in.chars) \in 1..MaxLength
    /\ text_in.chars[Len(text_in.chars)] = "<"
    /\ Len(text_out.chars) = MaxLength
    /\ text_out.chars[MaxLength] = "&"

\* C10: no run is left waiting for a media download: every call of
\* download_media comes back, so the run goes on to its terminal state.
NoRunBlocked == pc # "Blocked"

TypeOK ==
    /\ pc \in {"Start", "Fetching", "Normalizing", "Returned", "Blocked", "Done"}
    /\ outcome \in {"running", "returned", "raised"}
    /\ Len(posts) = Len(media_results) \/ pc \in {"Returned", "Done"}

====
